---- MODULE Spec2Model ----
(***************************************************************************)
(* A model of the search aggregation engine (google_search and            *)
(* fetch_all_results of src/search.py and src/app.py) and of the           *)
(* configuration change engine (update_env_file and update_proxy_file of   *)
(* src/utils.py).                                                          *)
(*                                                                         *)
(* Spec      : one call of fetch_all_results, with its thread pool.        *)
(* SpecStore : successive applications of changesets to the two stores.    *)
(***************************************************************************)
EXTENDS Integers, Sequences, FiniteSets, TLC

VARIABLES
    variant,            \* "search" (src/search.py) or "app" (src/app.py)
    pc,                 \* position of the fetch_all_results call
    max_queries,        \* argument max_queries
    results,            \* local `results` of the first page (line 82)
    next_start,         \* local `next_start`
    total_results,      \* local `total_results`
    search_time,        \* local `search_time` of the first page, in hundredths
    remaining_pages,    \* local `remaining_pages`
    results_map,        \* dict start -> results, in insertion order
    total_search_time,  \* in hundredths of a second
    futures,            \* start index -> state of the submitted future
    fetches,            \* number of remote requests issued so far
    returned,           \* the value fetch_all_results returned
    form,               \* which store the changesets go to: "env" or "list"
    env_data,           \* the caller's mapping store (dict, insertion ordered)
    env_file,           \* lines of the mapping store's backing file
    domains,            \* the caller's list store
    dom_file,           \* lines of DOM_PATH
    history,            \* the applications so far: arguments and outcome
    segments,           \* argument of refine_breadcrumb_trail
    trail,              \* the trail refine_breadcrumb_trail returned
    writer,             \* the write-back of an application, step by step
    observed            \* what a reader of the backing file has read

aggVars == <<variant, pc, max_queries, results, next_start, total_results,
             search_time, remaining_pages, results_map, total_search_time, futures,
             fetches, returned>>
storeVars == <<form, env_data, env_file, domains, dom_file, history>>
auxVars == <<segments, trail, writer, observed>>
vars == <<variant, pc, max_queries, results, next_start, total_results,
          search_time, remaining_pages, results_map, total_search_time, futures,
          fetches, returned, form, env_data, env_file, domains, dom_file, history,
          segments, trail, writer, observed>>

----------------------------------------------------------------------------
(* Bounds of the model *)

\* largest max_queries a call is made with
MaxQueries == 3
\* largest totalResults the first page reports
MaxTotal == 22
\* largest number of entries (del, upd and add together) of a changeset
MaxOps == 2
\* largest number of applications in a row
MaxApplies == 2
\* largest number of path segments of a link
MaxSegments == 3

\* page size of the custom search API
MAX_RESULTS == 10

----------------------------------------------------------------------------
(* Python values *)

\* None is the empty tuple, any other value v is <<v>>
None == <<>>
Some(v) == <<v>>

Min(a, b) == IF a < b THEN a ELSE b
Max(a, b) == IF a > b THEN a ELSE b

\* Python's a // b for b > 0: rounds towards minus infinity
FloorDiv(a, b) == IF a >= 0 THEN a \div b ELSE -((-a + b - 1) \div b)

\* a dict is the sequence of its [k, v] entries in insertion order
DictKeys(d) == [i \in 1..Len(d) |-> d[i].k]
DictHas(d, k) == \E i \in 1..Len(d) : d[i].k = k
DictGet(d, k) == d[CHOOSE i \in 1..Len(d) : d[i].k = k].v
\* d[k] = v: an existing key keeps its position
DictSet(d, k, v) ==
    IF DictHas(d, k)
    THEN [i \in 1..Len(d) |-> IF d[i].k = k THEN [k |-> k, v |-> v] ELSE d[i]]
    ELSE Append(d, [k |-> k, v |-> v])

RECURSIVE Flatten(_)
Flatten(ss) == IF ss = <<>> THEN <<>> ELSE Head(ss) \o Flatten(Tail(ss))

\* sorted(keys) for integer keys
RECURSIVE SortedSeq(_)
SortedSeq(S) ==
    IF S = {} THEN <<>>
    ELSE LET m == CHOOSE x \in S : \A y \in S : x <= y
         IN <<m>> \o SortedSeq(S \ {m})

----------------------------------------------------------------------------
(* The remote API's responses *)

\* a numeric string, as the sequence of its characters; a character is a
\* digit 0..9 or NonDigit
NonDigit == 10
RECURSIVE DigitStr(_)
DigitStr(n) == IF n < 10 THEN <<n>> ELSE DigitStr(n \div 10) \o <<n % 10>>

IsNumeric(s) == Len(s) > 0 /\ \A i \in 1..Len(s) : s[i] \in 0..9
RECURSIVE IntOf(_)
IntOf(s) == IF s = <<>> THEN 0 ELSE 10 * IntOf(SubSeq(s, 1, Len(s) - 1)) + s[Len(s)]

\* an item of page `start` is <<start, n>>; a page lists its items in the
\* API's order of relevance, which is not the order of n
ItemLists(start) == { <<>>, << <<start, 2>>, <<start, 1>> >> }

\* kind "exception": requests.get(...).json() raised exc
\* kind "error":     the body holds an error object (wellformed: with code and message)
\* kind "json":      any other JSON body; an absent field is None
Response(kind, exc, wellformed, items, nextStart, totalResults, searchTime) ==
    [kind |-> kind, exc |-> exc, wellformed |-> wellformed, items |-> items,
     nextStart |-> nextStart, totalResults |-> totalResults, searchTime |-> searchTime]

FailureResponses ==
    { Response("exception", e, TRUE, None, None, None, None) :
        e \in {"RequestException", "ValueError"} }
    \cup { Response("error", "", w, None, None, None, None) : w \in BOOLEAN }
    \cup { Response("json", "", TRUE, None, None, Some(<<1, NonDigit>>), None) }

\* searchTime is in milliseconds
FirstResponses ==
    FailureResponses
    \cup { Response("json", "", TRUE, Some(it), ns, Some(DigitStr(t)), Some(234)) :
             it \in ItemLists(1), ns \in {None, Some(MAX_RESULTS + 1)}, t \in 0..MaxTotal }
    \cup { Response("json", "", TRUE, it, None, None, None) :
             it \in {None, Some(<< <<1, 2>>, <<1, 1>> >>)} }

PageResponses(start) ==
    FailureResponses
    \cup { Response("json", "", TRUE, Some(it), None, Some(DigitStr(MaxTotal)), Some(157)) :
             it \in ItemLists(start) }

----------------------------------------------------------------------------
(* google_search *)

extract_results(r) == IF r.items = None THEN <<>> ELSE r.items[1]

get_next_start(r) == IF r.nextStart = None THEN 0 ELSE r.nextStart[1]

\* round(seconds, 2), from milliseconds to hundredths
Round2(ms) == (ms + 5) \div 10

\* int(totalResults) raises ValueError on a non-numeric string
SearchInfoRaises(r) == r.totalResults # None /\ ~IsNumeric(r.totalResults[1])
extract_search_info(r) ==
    << IF r.totalResults = None THEN 0 ELSE IntOf(r.totalResults[1]),
       IF r.searchTime = None THEN 0 ELSE Round2(r.searchTime[1]) >>

Page(res, ns, total, time) ==
    [raised |-> FALSE, results |-> res, next_start |-> ns,
     total_results |-> total, search_time |-> time]
Raised == [raised |-> TRUE, results |-> <<>>, next_start |-> 0,
           total_results |-> 0, search_time |-> 0]

default_types == Page(<<>>, 0, 0, 0)

\* the try block: the exception class it ends with, or "" and the page
TryBody(r) ==
    IF r.kind = "exception" THEN [exc |-> r.exc, page |-> default_types]
    ELSE IF r.kind = "error" THEN [exc |-> "error", page |-> default_types]
    ELSE IF SearchInfoRaises(r) THEN [exc |-> "ValueError", page |-> default_types]
    ELSE [exc |-> "",
          page |-> Page(extract_results(r), get_next_start(r),
                        extract_search_info(r)[1], extract_search_info(r)[2])]

\* src/search.py: an error object raises Exception inside the try, and
\* `except Exception` turns every exception into the default page
google_search_search(r) ==
    IF TryBody(r).exc = "" THEN TryBody(r).page ELSE default_types

\* src/app.py: an error object is logged (KeyError when it lacks code or
\* message) and only requests.exceptions.RequestException is caught
google_search_app(r) ==
    LET t == TryBody(r) IN
    IF t.exc = "" THEN t.page
    ELSE IF t.exc = "error" THEN (IF r.wellformed THEN default_types ELSE Raised)
    ELSE IF t.exc = "RequestException" THEN default_types
    ELSE Raised

google_search(v, r) == IF v = "search" THEN google_search_search(r) ELSE google_search_app(r)

----------------------------------------------------------------------------
(* fetch_all_results *)

\* variants of line 85 with a slip in it: ceiling division; the cap of
\* max_queries - 1 forgotten; the cap taken as max_queries
RemainingPagesCeil(mq, total) == Min(mq - 1, -FloorDiv(-(total - 1), MAX_RESULTS))
RemainingPagesNoCap(mq, total) == FloorDiv(total - 1, MAX_RESULTS)
RemainingPagesOffByOne(mq, total) == Min(mq, FloorDiv(total - 1, MAX_RESULTS))

\* line 85 with total_results // MAX_RESULTS for the number of further pages
RemainingPagesTotalDiv(mq, total) == Min(mq - 1, FloorDiv(total, MAX_RESULTS))

\* line 85
RemainingPages(mq, total) == Min(mq - 1, FloorDiv(total - 1, MAX_RESULTS))

\* range(n) is empty for n <= 0
remaining_indices(ns, n) == { ns + i * MAX_RESULTS : i \in 0..(n - 1) }

\* line 103 without sorted(): the keys in the order the pages arrived
MergeOrderArrival(m) == DictKeys(m)

\* sorted(results_map.keys())
MergeOrder(m) == SortedSeq({ m[i].k : i \in 1..Len(m) })

Merge(m) == Flatten([i \in 1..Len(MergeOrder(m)) |-> DictGet(m, MergeOrder(m)[i])])

\* no trail is being built and no file is being written
NotWriting == [pc |-> "idle", pre |-> <<>>, lines |-> <<>>, written |-> 0]
AuxIdle ==
    /\ segments = <<>>
    /\ trail = None
    /\ writer = NotWriting
    /\ observed = None

Init ==
    /\ AuxIdle
    /\ variant \in {"search", "app"}
    /\ pc = "call"
    /\ max_queries \in 1..MaxQueries
    /\ results = <<>>
    /\ next_start = 0
    /\ total_results = 0
    /\ search_time = 0
    /\ remaining_pages = 0
    /\ results_map = <<>>
    /\ total_search_time = 0
    /\ futures = <<>>
    /\ fetches = 0
    /\ returned = None
    /\ form = "env"
    /\ env_data = <<>>
    /\ env_file = <<>>
    /\ domains = <<>>
    /\ dom_file = <<>>
    /\ history = <<>>

\* lines 82-93: the first page, synchronously, and the submission of the others
FirstFetch ==
    /\ pc = "call"
    /\ \E r \in FirstResponses :
         LET p == google_search(variant, r)
             n == RemainingPages(max_queries, p.total_results)
             idx == IF n # 0 /\ p.next_start # 0
                    THEN remaining_indices(p.next_start, n) ELSE {}
         IN /\ fetches' = 1
            /\ IF p.raised
               THEN /\ pc' = "raised"
                    /\ UNCHANGED <<results, next_start, total_results, search_time,
                                   remaining_pages, results_map, total_search_time,
                                   futures>>
               ELSE /\ results' = p.results
                    /\ next_start' = p.next_start
                    /\ total_results' = p.total_results
                    /\ search_time' = p.search_time
                    /\ results_map' = <<[k |-> 1, v |-> p.results]>>
                    /\ total_search_time' = p.search_time
                    /\ remaining_pages' = n
                    /\ futures' = [s \in idx |-> [state |-> "pending", out |-> Raised]]
                    /\ pc' = "collect"
    /\ UNCHANGED <<variant, max_queries, returned>>
    /\ UNCHANGED storeVars
    /\ UNCHANGED auxVars

\* a pool thread runs google_search for one submitted start index
Worker(s) ==
    /\ pc = "collect"
    /\ futures[s].state = "pending"
    /\ \E r \in PageResponses(s) :
         futures' = [futures EXCEPT ![s] = [state |-> "finished", out |-> google_search(variant, r)]]
    /\ fetches' = fetches + 1
    /\ UNCHANGED <<variant, pc, max_queries, results, next_start, total_results,
                   search_time, remaining_pages, results_map, total_search_time,
                   returned>>
    /\ UNCHANGED storeVars
    /\ UNCHANGED auxVars

\* lines 94-101 without the try/except around future.result()
CollectNoCatch(s) ==
    /\ pc = "collect"
    /\ futures[s].state = "finished"
    /\ futures' = [futures EXCEPT ![s].state = "collected"]
    /\ IF futures[s].out.raised
       THEN /\ pc' = "raised"
            /\ UNCHANGED <<results_map, total_search_time>>
       ELSE /\ results_map' = DictSet(results_map, s, futures[s].out.results)
            /\ total_search_time' = total_search_time + futures[s].out.search_time
            /\ pc' = pc
    /\ UNCHANGED <<variant, max_queries, results, next_start, total_results,
                   search_time, remaining_pages, fetches, returned>>
    /\ UNCHANGED storeVars
    /\ UNCHANGED auxVars

\* lines 94-101: as_completed yields a finished future; its result is stored,
\* or its exception is logged
Collect(s) ==
    /\ pc = "collect"
    /\ futures[s].state = "finished"
    /\ futures' = [futures EXCEPT ![s].state = "collected"]
    /\ IF futures[s].out.raised
       THEN UNCHANGED <<results_map, total_search_time>>
       ELSE /\ results_map' = DictSet(results_map, s, futures[s].out.results)
            /\ total_search_time' = total_search_time + futures[s].out.search_time
    /\ UNCHANGED <<variant, pc, max_queries, results, next_start, total_results,
                   search_time, remaining_pages, fetches, returned>>
    /\ UNCHANGED storeVars
    /\ UNCHANGED auxVars

\* lines 102-105, once the executor has shut down
Return ==
    /\ pc = "collect"
    /\ \A s \in DOMAIN futures : futures[s].state = "collected"
    /\ returned' = Some([all_results |-> Merge(results_map),
                         total_results |-> total_results,
                         search_time |-> total_search_time])
    /\ pc' = "done"
    /\ UNCHANGED <<variant, max_queries, results, next_start, total_results,
                   search_time, remaining_pages, results_map, total_search_time,
                   futures, fetches>>
    /\ UNCHANGED storeVars
    /\ UNCHANGED auxVars

Next ==
    \/ FirstFetch
    \/ \E s \in DOMAIN futures : Worker(s)
    \/ \E s \in DOMAIN futures : Collect(s)
    \/ Return

Spec == Init /\ [][Next]_vars

----------------------------------------------------------------------------
(* Properties of fetch_all_results *)

Starts == DOMAIN futures
\* what the fetch of start index s contributed: nothing when it raised
PageResults(s) == IF futures[s].out.raised THEN <<>> ELSE futures[s].out.results
PageTime(s) == IF futures[s].out.raised THEN 0 ELSE futures[s].out.search_time
Succeeded == { s \in Starts : ~futures[s].out.raised }

RECURSIVE SumTimes(_)
SumTimes(S) ==
    IF S = {} THEN 0
    ELSE LET s == CHOOSE x \in S : TRUE IN PageTime(s) + SumTimes(S \ {s})

RECURSIVE SumLens(_)
SumLens(S) ==
    IF S = {} THEN 0
    ELSE LET s == CHOOSE x \in S : TRUE IN Len(PageResults(s)) + SumLens(S \ {s})

\* C1: the returned list is page 1's results followed by the results of the
\* fanned-out pages in ascending start index (next_start, next_start + 10,
\* ...), each page in its own order, whatever the order the fetches
\* completed in.
C1_MergedInStartOrder ==
    pc = "done" =>
        returned[1].all_results =
            results \o Flatten([i \in 1..Cardinality(Starts) |->
                                  PageResults(next_start + (i - 1) * MAX_RESULTS)])

\* two pages with results were fanned out and the later page arrived first
C1_Witness ==
    /\ pc = "done"
    /\ DictKeys(results_map) = <<1, 2 * MAX_RESULTS + 1, MAX_RESULTS + 1>>
    /\ \A i \in 1..Len(results_map) : results_map[i].v # <<>>

\* C2: a failed fan-out fetch does not fail the call; the call returns only
\* after every submitted fetch has run and been collected; each page that
\* succeeded has its results in the output, at the place its start index
\* gives it; a failed page adds no results and no duration.
C2_FailedPagesAreMissingPages ==
    /\ pc = "raised" => Starts = {}
    /\ pc = "done" =>
        /\ \A s \in Starts : futures[s].state = "collected"
        /\ fetches = 1 + Cardinality(Starts)
        /\ Len(returned[1].all_results) = Len(results) + SumLens(Succeeded)
        /\ \A s \in Succeeded : \A j \in 1..Len(PageResults(s)) :
              returned[1].all_results[Len(results)
                                      + SumLens({ t \in Succeeded : t < s }) + j]
                  = PageResults(s)[j]
        /\ \A s \in Starts \ Succeeded : ~DictHas(results_map, s)
        /\ returned[1].search_time = search_time + SumTimes(Succeeded)

\* of two fanned-out pages the first failed and the second brought results
C2_Witness ==
    /\ pc = "done"
    /\ Cardinality(Starts) = 2
    /\ \E s \in Starts, t \in Succeeded :
          /\ s < t
          /\ futures[s].out.raised
          /\ PageResults(t) # <<>>

\* the floor of a / b for b > 0, by its defining inequalities
FloorOf(a, b) == CHOOSE q \in -1..a : q * b <= a /\ a < (q + 1) * b
\* the ceiling of a / b for b > 0
CeilOf(a, b) == CHOOSE q \in 0..(a + 1) : (q - 1) * b < a /\ a <= q * b

\* C3 (as stated): with a valid next-start the number of fanned-out pages is
\* max(0, min(maxPages - 1, ceil((total - 1) / pageSize))).
C3_FanOutIsCeiling ==
    (pc \in {"collect", "done"} /\ next_start # 0) =>
        Cardinality(Starts) =
            Max(0, Min(max_queries - 1, CeilOf(total_results - 1, MAX_RESULTS)))

\* C3 (amended): with a valid next-start the number of fanned-out pages is
\* max(0, min(maxPages - 1, floor((total - 1) / pageSize))).
C3_FanOutIsFloor ==
    (pc \in {"collect", "done"} /\ next_start # 0) =>
        Cardinality(Starts) =
            Max(0, Min(max_queries - 1, FloorOf(total_results - 1, MAX_RESULTS)))

\* a total for which floor and ceiling differ, and the budget does not bind
C3_Witness ==
    /\ pc = "done"
    /\ next_start # 0
    /\ total_results = MAX_RESULTS + 2
    /\ max_queries = 3
    /\ Cardinality(Starts) = 1

\* C4: with max_queries = 1 exactly one remote fetch is issued, and the call
\* returns page 1's results in their order and page 1's duration.
C4_SinglePage ==
    max_queries = 1 =>
        /\ fetches <= 1
        /\ pc = "done" =>
            /\ fetches = 1
            /\ returned[1].all_results = results
            /\ returned[1].search_time = search_time

\* max_queries = 1 and a first page that reports more results and a next page
C4_Witness ==
    /\ pc = "done"
    /\ max_queries = 1
    /\ total_results > 2 * MAX_RESULTS
    /\ next_start = MAX_RESULTS + 1
    /\ results # <<>>
    /\ search_time > 0

\* C5: no page fetch raises, whatever the remote API answers, so the call
\* never ends with an exception.
C5_NeverRaises ==
    /\ pc # "raised"
    /\ \A s \in Starts : futures[s].state # "pending" => ~futures[s].out.raised

\* C6: the call never issues more than max_queries remote fetches.
C6_FetchBudget == fetches <= max_queries

\* the whole budget of three fetches was used
C6_Witness ==
    /\ pc = "done"
    /\ max_queries = 3
    /\ fetches = 3

----------------------------------------------------------------------------
(* Strings, stores and changesets *)

\* a string is the sequence of its characters
NoneStr == <<"N", "o", "n", "e">>
\* f"{x}": str(None) is "None"
Str(o) == IF o = None THEN NoneStr ELSE o[1]

\* x or y: None and the empty string are falsy
Falsy(o) == o = None \/ o = Some(<<>>)
Or(x, y) == IF Falsy(x) THEN y ELSE x

Names == { <<"a">>, <<"b">>, <<"c">> }
NewName == <<"n">>
InitValue(k) == <<"v">> \o k

SeqsOfLen(S, n) == [1..n -> S]
InjectiveSeqs(S) ==
    { q \in UNION { SeqsOfLen(S, n) : n \in 0..Cardinality(S) } :
        \A i, j \in 1..Len(q) : i # j => q[i] # q[j] }

\* the stores a worker can hold after loading a file this program wrote
InitEnvStores ==
    { [i \in 1..Len(q) |-> [k |-> Some(q[i]), v |-> Some(InitValue(q[i]))]] :
        q \in InjectiveSeqs(Names) }
InitListStores == { [i \in 1..Len(q) |-> Some(q[i])] : q \in InjectiveSeqs(Names) }

\* the entries of a changeset as the settings form sends them; a field the
\* JSON object lacks is None (dict.get)
UpdEntry(o, n, v) == [original |-> o, name |-> n, value |-> v]
AddEntry(n, v) == [name |-> n, value |-> v]
Originals == { <<"a">>, <<"c">> }
EnvUpdEntries ==
    { UpdEntry(Some(o), nv[1], nv[2]) :
        o \in Originals,
        nv \in { <<None, Some(<<"9">>)>>, <<Some(NewName), None>>,
                 <<Some(NewName), Some(<<"9">>)>>, <<Some(<<"b">>), None>> } }
EnvAddEntries == { AddEntry(Some(n), Some(<<"7">>)) : n \in { <<"a">>, NewName } }
ListUpdEntries ==
    { UpdEntry(Some(o), n, None) :
        o \in Originals, n \in { None, Some(NewName), Some(<<"b">>) } }
ListAddEntries == { AddEntry(Some(n), None) : n \in { <<"a">>, NewName } }

ChangeSetsOf(U, A) ==
    UNION { { [del |-> d, upd |-> u, add |-> a] :
                d \in SeqsOfLen(Names, n[1]), u \in SeqsOfLen(U, n[2]),
                a \in SeqsOfLen(A, n[3]) } :
            n \in { m \in (0..MaxOps) \X (0..MaxOps) \X (0..MaxOps) :
                      m[1] + m[2] + m[3] <= MaxOps } }
EnvChangeSets == ChangeSetsOf(EnvUpdEntries, EnvAddEntries)
ListChangeSets == ChangeSetsOf(ListUpdEntries, ListAddEntries)
EmptyChanges == [del |-> <<>>, upd |-> <<>>, add |-> <<>>]

----------------------------------------------------------------------------
(* update_env_file *)

DictDel(d, k) == SelectSeq(d, LAMBDA e : e.k # k)

\* lines 62-63: env_data.pop(name) raises KeyError for a missing name; the
\* names before it are already popped from the caller's dict
RECURSIVE PopAll(_, _)
PopAll(d, names) ==
    IF names = <<>> THEN [raised |-> FALSE, store |-> d]
    ELSE IF ~DictHas(d, Some(Head(names))) THEN [raised |-> TRUE, store |-> d]
    ELSE PopAll(DictDel(d, Some(Head(names))), Tail(names))

\* a dict built by assigning the entries of a sequence in order
RECURSIVE DictOf(_)
DictOf(es) ==
    IF es = <<>> THEN <<>>
    ELSE DictSet(DictOf(SubSeq(es, 1, Len(es) - 1)), es[Len(es)].k, es[Len(es)].v)

\* line 64
EnvUpdateMap(upd) ==
    DictOf([i \in 1..Len(upd) |->
              [k |-> upd[i].original, v |-> <<upd[i].name, upd[i].value>>]])

\* line 66 with the retained value forgotten
RebuiltEntryNoRetain(m, e) ==
    LET u == IF DictHas(m, e.k) THEN DictGet(m, e.k) ELSE <<e.k, None>>
    IN [k |-> u[1], v |-> u[2]]

\* line 66: (upd := update_map.get(k, (k, None)))[0]: upd[1] or v
RebuiltEntry(m, e) ==
    LET u == IF DictHas(m, e.k) THEN DictGet(m, e.k) ELSE <<e.k, None>>
    IN [k |-> u[1], v |-> Or(u[2], e.v)]

\* lines 65-68 rebuilt so that an update of a missing name inserts its entry
EnvRebuildUpsert(d, upd) ==
    DictOf([i \in 1..Len(d) |-> RebuiltEntry(EnvUpdateMap(upd), d[i])]
           \o [i \in 1..Len(SelectSeq(upd, LAMBDA u : ~DictHas(d, u.original))) |->
                 [k |-> SelectSeq(upd, LAMBDA u : ~DictHas(d, u.original))[i].name,
                  v |-> SelectSeq(upd, LAMBDA u : ~DictHas(d, u.original))[i].value]])

\* lines 65-68 done by popping each renamed key and inserting its new name
EnvRebuildRenameLast(d, upd) ==
    DictOf([i \in 1..Len(SelectSeq(d, LAMBDA e : ~DictHas(EnvUpdateMap(upd), e.k))) |->
              SelectSeq(d, LAMBDA e : ~DictHas(EnvUpdateMap(upd), e.k))[i]]
           \o [i \in 1..Len(SelectSeq(d, LAMBDA e : DictHas(EnvUpdateMap(upd), e.k))) |->
                 RebuiltEntry(EnvUpdateMap(upd),
                              SelectSeq(d, LAMBDA e : DictHas(EnvUpdateMap(upd), e.k))[i])])

\* lines 65-68
EnvRebuild(d, upd) ==
    DictOf([i \in 1..Len(d) |-> RebuiltEntry(EnvUpdateMap(upd), d[i])])

\* lines 69-70
EnvAdd(d, add) ==
    DictOf(d \o [i \in 1..Len(add) |-> [k |-> add[i].name, v |-> add[i].value]])

\* lines 72-73: one line '<k>'='<v>' per entry
EnvLine(e) == <<"'">> \o Str(e.k) \o <<"'", "=", "'">> \o Str(e.v) \o <<"'">>
WriteEnv(d) == [i \in 1..Len(d) |-> EnvLine(d[i])]

\* the call: whether it raised, the caller's dict afterwards (only pop
\* changes it: line 65 rebinds the local name) and the file afterwards
update_env_file(file, d, changes) ==
    LET p == PopAll(d, changes.del) IN
    IF p.raised THEN [raised |-> TRUE, store |-> p.store, file |-> file]
    ELSE [raised |-> FALSE, store |-> p.store,
          file |-> WriteEnv(EnvAdd(EnvRebuild(p.store, changes.upd), changes.add))]

----------------------------------------------------------------------------
(* update_proxy_file *)

\* list.remove(x): the first occurrence
RemoveFirst(l, x) ==
    LET i == CHOOSE j \in 1..Len(l) : l[j] = x /\ \A h \in 1..(j - 1) : l[h] # x
    IN SubSeq(l, 1, i - 1) \o SubSeq(l, i + 1, Len(l))

\* lines 77-78: domains.remove(name) raises ValueError for a missing name
RECURSIVE RemoveAll(_, _)
RemoveAll(l, names) ==
    IF names = <<>> THEN [raised |-> FALSE, store |-> l]
    ELSE IF \A i \in 1..Len(l) : l[i] # Some(Head(names))
         THEN [raised |-> TRUE, store |-> l]
    ELSE RemoveAll(RemoveFirst(l, Some(Head(names))), Tail(names))

\* line 79
ListUpdateMap(upd) ==
    DictOf([i \in 1..Len(upd) |-> [k |-> upd[i].original, v |-> upd[i].name]])

\* line 80
ListRebuild(l, upd) ==
    [i \in 1..Len(l) |->
        IF DictHas(ListUpdateMap(upd), l[i]) THEN DictGet(ListUpdateMap(upd), l[i])
        ELSE l[i]]

\* lines 81-82
ListAdd(l, add) == l \o [i \in 1..Len(add) |-> add[i].name]

\* lines 84-85
WriteDomains(l) == [i \in 1..Len(l) |-> Str(l[i])]

update_proxy_file(file, l, changes) ==
    LET p == RemoveAll(l, changes.del) IN
    IF p.raised THEN [raised |-> TRUE, store |-> p.store, file |-> file]
    ELSE [raised |-> FALSE, store |-> p.store,
          file |-> WriteDomains(ListAdd(ListRebuild(p.store, changes.upd), changes.add))]

----------------------------------------------------------------------------
(* Loading the stores *)

\* dotenv_values on a line '<key>'='<value>'
ParseEnvLine(line) ==
    LET quotes == { i \in 2..Len(line) : line[i] = "'" }
        q == IF quotes = {} THEN 0 ELSE CHOOSE i \in quotes : \A j \in quotes : i <= j
    IN IF /\ Len(line) >= 6
          /\ line[1] = "'"
          /\ q > 2
          /\ Len(line) >= q + 3
          /\ line[q + 1] = "="
          /\ line[q + 2] = "'"
          /\ quotes = {q, q + 2, Len(line)}
       THEN [ok |-> TRUE, k |-> Some(SubSeq(line, 2, q - 1)),
             v |-> Some(SubSeq(line, q + 3, Len(line) - 1))]
       ELSE [ok |-> FALSE, k |-> None, v |-> None]

dotenv_values(file) ==
    DictOf(SelectSeq([i \in 1..Len(file) |-> ParseEnvLine(file[i])], LAMBDA e : e.ok))

RECURSIVE Strip(_)
Strip(s) ==
    IF s = <<>> THEN s
    ELSE IF Head(s) = " " THEN Strip(Tail(s))
    ELSE IF s[Len(s)] = " " THEN Strip(SubSeq(s, 1, Len(s) - 1))
    ELSE s

\* [l for line in f if (l := line.strip())]
load_proxied_domains(file) ==
    LET stripped == SelectSeq([i \in 1..Len(file) |-> Strip(file[i])],
                              LAMBDA l : l # <<>>)
    IN [i \in 1..Len(stripped) |-> Some(stripped[i])]

----------------------------------------------------------------------------
(* The settings of one worker: changesets applied to one store *)

AggIdle ==
    /\ variant = "search"
    /\ pc = "idle"
    /\ max_queries = 1
    /\ results = <<>>
    /\ next_start = 0
    /\ total_results = 0
    /\ search_time = 0
    /\ remaining_pages = 0
    /\ results_map = <<>>
    /\ total_search_time = 0
    /\ futures = <<>>
    /\ fetches = 0
    /\ returned = None

InitStore ==
    /\ AggIdle
    /\ AuxIdle
    /\ form \in {"env", "list"}
    /\ env_data \in (IF form = "env" THEN InitEnvStores ELSE {<<>>})
    /\ env_file = WriteEnv(env_data)
    /\ domains \in (IF form = "list" THEN InitListStores ELSE {<<>>})
    /\ dom_file = WriteDomains(domains)
    /\ history = <<>>

Applied(c, before, file, r) ==
    [changes |-> c, before |-> before, file_before |-> file,
     raised |-> r.raised, after |-> r.store, file_after |-> r.file]

\* the changesets the next application may be called with: any one at
\* first, then the same one again or the empty one
NextChanges(all) ==
    IF Len(history) >= MaxApplies THEN {}
    ELSE IF history = <<>> THEN all
    ELSE { history[Len(history)].changes, EmptyChanges }

ApplyEnv ==
    /\ form = "env"
    /\ \E c \in NextChanges(EnvChangeSets) :
         /\ LET r == update_env_file(env_file, env_data, c)
            IN /\ env_data' = r.store
               /\ env_file' = r.file
               /\ history' = Append(history, Applied(c, env_data, env_file, r))
    /\ UNCHANGED <<form, domains, dom_file>>
    /\ UNCHANGED aggVars
    /\ UNCHANGED auxVars

ApplyDomains ==
    /\ form = "list"
    /\ \E c \in NextChanges(ListChangeSets) :
         /\ LET r == update_proxy_file(dom_file, domains, c)
            IN /\ domains' = r.store
               /\ dom_file' = r.file
               /\ history' = Append(history, Applied(c, domains, dom_file, r))
    /\ UNCHANGED <<form, env_data, env_file>>
    /\ UNCHANGED aggVars
    /\ UNCHANGED auxVars

\* the reload of a changed file (WatchdogFileHandler.on_modified, or a
\* worker restarted by signal_workers)
ReloadEnv ==
    /\ form = "env"
    /\ env_data' = dotenv_values(env_file)
    /\ UNCHANGED <<form, env_file, domains, dom_file, history>>
    /\ UNCHANGED aggVars
    /\ UNCHANGED auxVars

ReloadDomains ==
    /\ form = "list"
    /\ domains' = load_proxied_domains(dom_file)
    /\ UNCHANGED <<form, env_data, env_file, dom_file, history>>
    /\ UNCHANGED aggVars
    /\ UNCHANGED auxVars

NextStore ==
    \/ ApplyEnv
    \/ ApplyDomains
    \/ ReloadEnv
    \/ ReloadDomains

SpecStore == InitStore /\ [][NextStore]_vars

----------------------------------------------------------------------------
(* Properties of the configuration change engine *)

Persist(store) == IF form = "env" THEN WriteEnv(store) ELSE WriteDomains(store)
ApplyOf(file, store, c) ==
    IF form = "env" THEN update_env_file(file, store, c)
    ELSE update_proxy_file(file, store, c)
\* whether the store holds an entry of this name
Holds(store, name) ==
    IF form = "env" THEN DictHas(store, name)
    ELSE \E i \in 1..Len(store) : store[i] = name
Count(q, x) == Cardinality({ i \in 1..Len(q) : q[i] = x })
DeleteOnly(c) == c.del # <<>> /\ c.upd = <<>> /\ c.add = <<>>

\* C7: an empty changeset does not fail and leaves in the backing file
\* exactly the lines that persisting the store as it was produces.
C7_EmptyChangesetRewritesStore ==
    \A i \in 1..Len(history) :
        history[i].changes = EmptyChanges =>
            /\ ~history[i].raised
            /\ history[i].file_after = Persist(history[i].before)
            /\ history[i].after = history[i].before

\* an empty changeset was applied to a mapping store of three entries
C7_Witness ==
    /\ form = "env"
    /\ history # <<>>
    /\ history[1].changes = EmptyChanges
    /\ Len(history[1].before) = 3
    /\ Len(env_file) = 3

\* C8: after {add: [{name: X}]} is applied to a list store that holds X at
\* most once, the persisted list holds X exactly once.
C8_AddInsertsNoDuplicate ==
    form = "list" =>
        \A i \in 1..Len(history) :
            LET h == history[i] IN
            (/\ h.changes.del = <<>>
             /\ h.changes.upd = <<>>
             /\ Len(h.changes.add) = 1
             /\ Count(h.before, h.changes.add[1].name) <= 1) =>
                /\ ~h.raised
                /\ Count(h.file_after, Str(h.changes.add[1].name)) = 1

\* C9: when a changeset of deletes has been applied, applying it again does
\* not fail and leaves the persisted file as the first application left it.
C9_DeleteTwiceIsIdempotent ==
    Len(history) >= 2 =>
        ((/\ DeleteOnly(history[1].changes)
          /\ history[2].changes = history[1].changes
          /\ ~history[1].raised) =>
            /\ ~history[2].raised
            /\ history[2].file_after = history[1].file_after)

\* the update entries of c whose original the store holds
PresentUpdates(store, c) == SelectSeq(c.upd, LAMBDA u : Holds(store, u.original))
WithoutAbsentUpdates(store, c) == [c EXCEPT !.upd = PresentUpdates(store, c)]

\* C10: update entries whose original is not in the store change nothing
\* and raise nothing: the application ends as the application of the
\* changeset without them ends; with no other update and no delete beside
\* them it does not fail, every entry of the store keeps its place, name and
\* (unless an add names it) value, and every add is in the file.
C10_AbsentUpdateIsNoOp ==
    \A i \in 1..Len(history) :
        LET h == history[i]
            c == h.changes
            rest == WithoutAbsentUpdates(h.before, c)
            r == ApplyOf(h.file_before, h.before, rest)
        IN Len(rest.upd) < Len(c.upd) =>
            /\ h.raised = r.raised
            /\ h.file_after = r.file
            /\ h.after = r.store
            /\ c.del = <<>> => ~h.raised
            /\ (c.del = <<>> /\ rest.upd = <<>>) =>
                /\ Len(h.file_after) >= Len(h.before)
                /\ \A j \in 1..Len(h.before) :
                     \/ h.file_after[j] = Persist(h.before)[j]
                     \/ /\ form = "env"
                        /\ \E a \in 1..Len(c.add) :
                             /\ c.add[a].name = h.before[j].k
                             /\ h.file_after[j] =
                                  EnvLine([k |-> c.add[a].name, v |-> c.add[a].value])
                /\ \A a \in 1..Len(c.add) :
                     \E j \in 1..Len(h.file_after) :
                        h.file_after[j] =
                            (IF form = "env"
                             THEN EnvLine([k |-> c.add[a].name, v |-> c.add[a].value])
                             ELSE Str(c.add[a].name))

\* an update of a missing name came with an add, which was applied
C10_Witness ==
    /\ form = "env"
    /\ history # <<>>
    /\ Len(history[1].changes.upd) = 1
    /\ ~Holds(history[1].before, history[1].changes.upd[1].original)
    /\ Len(history[1].changes.add) = 1
    /\ ~history[1].raised
    /\ Len(history[1].file_after) = Len(history[1].before) + 1

----------------------------------------------------------------------------
(* Further properties of fetch_all_results *)

\* C13: when the first page reports next-start 11, no start index that is
\* fanned out lies beyond the total the first page reported.
C13_NoStartBeyondTotal ==
    next_start = MAX_RESULTS + 1 => \A s \in Starts : s <= total_results

\* the last fanned-out page starts at the last result exactly
C13_Witness ==
    /\ pc = "done"
    /\ next_start = MAX_RESULTS + 1
    /\ total_results = 2 * MAX_RESULTS + 1
    /\ total_results \in Starts
    /\ futures[total_results].state = "collected"

----------------------------------------------------------------------------
(* Further properties of the configuration change engine *)

\* C14: an application that fails leaves the store object the caller passed
\* and the backing file as they were.
C14_FailedApplyChangesNothing ==
    \A i \in 1..Len(history) :
        history[i].raised =>
            /\ history[i].after = history[i].before
            /\ history[i].file_after = history[i].file_before

\* the name and the value a line of the mapping file is read back as
KeyOfLine(line) == ParseEnvLine(line).k
ValueOfLine(line) == ParseEnvLine(line).v
\* an application to the mapping store that did not fail, with one update
\* entry whose original the store still holds after the deletes
OneUpdate(h) ==
    /\ form = "env"
    /\ ~h.raised
    /\ Len(h.changes.upd) = 1
    /\ DictHas(h.after, h.changes.upd[1].original)

\* C15: an update that renames a key to a name the store does not hold puts
\* the new name where the original was in the persisted file, and every
\* other key that survives the deletes stays where it was among them.
C15_RenameKeepsPosition ==
    \A i \in 1..Len(history) :
        LET h == history[i]
            u == h.changes.upd[1]
        IN (/\ OneUpdate(h)
            /\ u.name # None
            /\ ~DictHas(h.before, u.name)) =>
               /\ Len(h.file_after) >= Len(h.after)
               /\ \A j \in 1..Len(h.after) :
                    KeyOfLine(h.file_after[j]) =
                        (IF h.after[j].k = u.original THEN u.name ELSE h.after[j].k)

\* the first of three keys was renamed and is still the first line
C15_Witness ==
    /\ form = "env"
    /\ history # <<>>
    /\ OneUpdate(history[1])
    /\ Len(history[1].after) = 3
    /\ history[1].after[1].k = history[1].changes.upd[1].original
    /\ history[1].changes.upd[1].name = Some(NewName)
    /\ KeyOfLine(env_file[1]) = Some(NewName)
    /\ KeyOfLine(env_file[2]) = history[1].after[2].k

\* C16: an update with a new value and no new name leaves the entry under
\* its original name with the new value; an update with a new name (one the
\* store does not hold) and no value leaves the original value under the new
\* name; in both cases no entry is stored under a missing name and the
\* number of entries is unchanged.
C16_PartialUpdateKeepsTheOtherHalf ==
    \A i \in 1..Len(history) :
        LET h == history[i]
            u == h.changes.upd[1]
        IN (/\ OneUpdate(h)
            /\ h.changes.add = <<>>
            /\ (u.name = None) # (u.value = None)
            /\ u.name # None => ~DictHas(h.before, u.name)) =>
               /\ Len(h.file_after) = Len(h.after)
               /\ \A j \in 1..Len(h.after) :
                    /\ KeyOfLine(h.file_after[j]) # Some(NoneStr)
                    /\ h.after[j].k = u.original =>
                         /\ KeyOfLine(h.file_after[j]) =
                              (IF u.name = None THEN u.original ELSE u.name)
                         /\ ValueOfLine(h.file_after[j]) =
                              (IF u.value = None THEN h.after[j].v ELSE u.value)

----------------------------------------------------------------------------
(* refine_breadcrumb_trail *)

\* len(segment) > 30
SegmentLimit == 30
\* len(trail) > 95
TrailLimit == 95

Ellipsis == <<".", ".", ".">>
Separator == <<" ", ">", " ">>

\* " > ".join(parts)
RECURSIVE Join(_)
Join(parts) ==
    IF parts = <<>> THEN <<>>
    ELSE IF Len(parts) = 1 THEN parts[1]
    ELSE parts[1] \o Separator \o Join(Tail(parts))

\* __format(segment, value)
Format(segment, value) == IF Len(segment) > SegmentLimit THEN value ELSE segment

\* src/search.py lines 76-77: first and last segment as they are, the joined
\* trail cut at 95 characters
refine_breadcrumb_trail_search(segs) ==
    LET n == Len(segs)
        t == Join(<<segs[1]>>
                  \o [i \in 1..Max(0, n - 2) |-> Format(segs[i + 1], Ellipsis)]
                  \o <<segs[n]>>)
    IN IF Len(t) > TrailLimit THEN SubSeq(t, 1, TrailLimit) \o Ellipsis ELSE t

\* src/app.py lines 311-317: every segment but the last formatted, the last
\* one cut to 30 characters
refine_breadcrumb_trail_app(segs) ==
    LET n == Len(segs)
    IN Join([i \in 1..(n - 1) |-> Format(segs[i], Ellipsis)]
            \o (IF n > 0
                THEN <<Format(segs[n], SubSeq(segs[n], 1, SegmentLimit) \o Ellipsis)>>
                ELSE <<>>))

refine_breadcrumb_trail(v, segs) ==
    IF v = "search" THEN refine_breadcrumb_trail_search(segs)
    ELSE refine_breadcrumb_trail_app(segs)

\* a segment of n characters; its last character differs from the others
Segment(n, ch) == [i \in 1..n |-> IF i = n THEN "z" ELSE ch]
\* a short segment, one of exactly 30 characters, one of 31 and a long one
Segments == { Segment(2, "d"), Segment(SegmentLimit, "s"),
              Segment(SegmentLimit + 1, "t"), Segment(2 * SegmentLimit + 4, "u") }
\* str.split("/") returns at least one segment
SegmentLists == UNION { [1..n -> Segments] : n \in 1..MaxSegments }

InitTrail ==
    /\ variant \in {"search", "app"}
    /\ pc = "idle"
    /\ max_queries = 1
    /\ results = <<>>
    /\ next_start = 0
    /\ total_results = 0
    /\ search_time = 0
    /\ remaining_pages = 0
    /\ results_map = <<>>
    /\ total_search_time = 0
    /\ futures = <<>>
    /\ fetches = 0
    /\ returned = None
    /\ form = "env"
    /\ env_data = <<>>
    /\ env_file = <<>>
    /\ domains = <<>>
    /\ dom_file = <<>>
    /\ history = <<>>
    /\ segments \in SegmentLists
    /\ trail = None
    /\ writer = NotWriting
    /\ observed = None

Refine ==
    /\ trail = None
    /\ trail' = Some(refine_breadcrumb_trail(variant, segments))
    /\ UNCHANGED <<segments, writer, observed>>
    /\ UNCHANGED aggVars
    /\ UNCHANGED storeVars

NextTrail == Refine

SpecTrail == InitTrail /\ [][NextTrail]_vars

\* what the segment at place i of n becomes: an interior segment of more than
\* 30 characters the ellipsis, a final one of more than 30 its first 30
\* characters and the ellipsis, any other segment itself
Refined(segs, i) ==
    IF Len(segs[i]) <= SegmentLimit THEN segs[i]
    ELSE IF i = Len(segs) THEN SubSeq(segs[i], 1, SegmentLimit) \o Ellipsis
    ELSE Ellipsis

\* C12: the trail is the segments joined, each interior segment of more than
\* 30 characters replaced by the ellipsis, a final segment of more than 30
\* characters cut to its first 30 followed by the ellipsis, and the segments
\* of 30 characters or fewer unchanged (a long first segment of several may
\* be kept or replaced).
C12_SegmentsRefined ==
    trail # None =>
        \E first \in { segments[1], Refined(segments, 1) } :
            trail[1] = Join([i \in 1..Len(segments) |->
                               IF i = 1 /\ Len(segments) > 1 THEN first
                               ELSE Refined(segments, i)])

----------------------------------------------------------------------------
(* The write-back of an application, and a reader of the file *)

CurrentStore == IF form = "env" THEN env_data ELSE domains
CurrentFile == IF form = "env" THEN env_file ELSE dom_file

\* the changesets whose write-back is followed step by step
WriteChangeSets ==
    { c \in (IF form = "env" THEN EnvChangeSets ELSE ListChangeSets) : c.upd = <<>> }

\* utils.py lines 62-71 and 77-83: the changes are applied in memory and
\* open(path, 'w') truncates the file; a failed delete leaves before the open
OpenForWrite ==
    /\ writer.pc = "idle"
    /\ \E c \in WriteChangeSets :
         LET r == IF form = "env" THEN update_env_file(env_file, env_data, c)
                  ELSE update_proxy_file(dom_file, domains, c)
             truncated == IF r.raised THEN CurrentFile ELSE <<>>
         IN /\ writer' = [pc |-> IF r.raised THEN "raised" ELSE "open",
                          pre |-> CurrentFile, lines |-> r.file, written |-> 0]
            /\ env_data' = (IF form = "env" THEN r.store ELSE env_data)
            /\ domains' = (IF form = "list" THEN r.store ELSE domains)
            /\ env_file' = (IF form = "env" THEN truncated ELSE env_file)
            /\ dom_file' = (IF form = "list" THEN truncated ELSE dom_file)
    /\ UNCHANGED <<form, history, segments, trail, observed>>
    /\ UNCHANGED aggVars

\* lines 72-73 and 84-85: f.write of one line; the buffered text reaches the
\* file now (the buffer is full) or later
WriteLine ==
    /\ writer.pc = "open"
    /\ writer.written < Len(writer.lines)
    /\ writer' = [writer EXCEPT !.written = @ + 1]
    /\ \E flush \in BOOLEAN :
         LET onDisk == IF flush THEN SubSeq(writer.lines, 1, writer.written + 1)
                       ELSE CurrentFile
         IN /\ env_file' = (IF form = "env" THEN onDisk ELSE env_file)
            /\ dom_file' = (IF form = "list" THEN onDisk ELSE dom_file)
    /\ UNCHANGED <<form, env_data, domains, history, segments, trail, observed>>
    /\ UNCHANGED aggVars

\* the end of the with block: the file is flushed and closed
CloseFile ==
    /\ writer.pc = "open"
    /\ writer.written = Len(writer.lines)
    /\ writer' = [writer EXCEPT !.pc = "closed"]
    /\ env_file' = (IF form = "env" THEN writer.lines ELSE env_file)
    /\ dom_file' = (IF form = "list" THEN writer.lines ELSE dom_file)
    /\ UNCHANGED <<form, env_data, domains, history, segments, trail, observed>>
    /\ UNCHANGED aggVars

\* WatchdogFileHandler.on_modified, or a reloaded worker, reads the file
ReadFile ==
    /\ observed = None
    /\ observed' = Some(CurrentFile)
    /\ UNCHANGED <<segments, trail, writer>>
    /\ UNCHANGED storeVars
    /\ UNCHANGED aggVars

NextWrite ==
    \/ OpenForWrite
    \/ WriteLine
    \/ CloseFile
    \/ ReadFile

SpecWrite == InitStore /\ [][NextWrite]_vars

\* the content of the file before the application and after it
PreContent == IF writer.pc \in {"open", "closed"} THEN writer.pre ELSE CurrentFile
PostContent == IF writer.pc \in {"open", "closed"} THEN writer.lines ELSE CurrentFile

\* C11: what a reader of the backing file reads is the whole content from
\* before the application or the whole content after it.
C11_ReaderSeesWholeFile ==
    observed # None => observed[1] \in { PreContent, PostContent }

====
